---- MODULE Spec2Model ----
(***************************************************************************)
(* Model of earnings/fetchEarningsFromFinnhub.mjs: a job that is launched  *)
(* repeatedly.  Each run loads the state file, fetches the upstream        *)
(* earnings calendar, sends one webhook message per reported and not yet   *)
(* recorded item, and writes the state file in the finally block.          *)
(*                                                                         *)
(* One action per step between two suspension points (await) of main().    *)
(* The process can be killed at any suspension point (Crash).              *)
(***************************************************************************)
EXTENDS Integers, Sequences, FiniteSets, TLC

VARIABLES
    file,         \* content of STATE_FILE on disk
    pc,           \* position of the process
    state,        \* the value of `state` in main()
    batch,        \* data.earningsCalendar as fetched in this run, in upstream order
    earnings,     \* `earnings`: the batch after sort()
    i,            \* position of the for-of loop in earnings (1-based)
    sent,         \* history: items whose webhook.send resolved in this run, in order
    attempts,     \* history: number of webhook.send calls started in this run
    outcome,      \* history: how the try block of this run was left
    saves,        \* history: number of saveState invocations in this run
    persisted,    \* history: fs.writeFile of this run resolved
    fileAtStart,  \* history: content of STATE_FILE when this run called loadState
    loaded,       \* history: what loadState returned in this run
    fetched,      \* history: axios.get resolved in this run
    prev,         \* history: summary of the previous run, kept while this run
                  \* works on the batch that run fetched
    env,          \* process.env of this run: which of the two settings are present
    waited,       \* history: milliseconds of sleep() that have elapsed in this run
    surpriseInput, \* an (epsActual, epsEstimate) pair given to the surprise computation
    statusEmoji   \* the glyph computed for it ("none": not computed yet)

\* the variables of the surprise computation
calc == <<surpriseInput, statusEmoji>>

vars == <<file, pc, state, batch, earnings, i, sent, attempts, outcome, saves,
          persisted, fileAtStart, loaded, fetched, prev, env, waited, surpriseInput,
          statusEmoji>>

(***************************************************************************)
(* Bounds                                                                  *)
(***************************************************************************)
MaxBatch == 2      \* longest upstream batch
MaxInitRecords == 1  \* longest state file that exists before the first run
MaxEps == 3        \* EPS figures are -MaxEps .. MaxEps (in cents)

\* const SLEEP_BETWEEN_SENDS = 3000
SLEEP_BETWEEN_SENDS == 3000

(***************************************************************************)
(* JavaScript values                                                       *)
(***************************************************************************)
Null == [t |-> "null"]
Undefined == [t |-> "undefined"]
Num(n) == [t |-> "number", v |-> n]
Str(s) == [t |-> "string", v |-> s]
\* the string "YYYY-MM-DD" of day number d, as the upstream source gives it
IsoDate(d) == [t |-> "isodate", v |-> d]
\* new Date(s) - 0: the time value of a date string (in days)
NewDate(s) == s.v

EmptyArray == [t |-> "array", items |-> <<>>]
JsArray(s) == [t |-> "array", items |-> s]
\* a JSON value that is not an array, e.g. {} or null
JsObject == [t |-> "object", items |-> <<>>]

\* o[k] in JavaScript: reading a key the object does not have gives undefined
Get(o, k) == IF k \in DOMAIN o THEN o[k] ELSE Undefined

(***************************************************************************)
(* Upstream records                                                        *)
(***************************************************************************)
Item(s, d, eps, rev) == [symbol |-> s, date |-> d, epsActual |-> eps, revenueActual |-> rev]
D1 == IsoDate(1)
D2 == IsoDate(2)
\* the records the upstream calendar can hold
Events ==
    { Item(Str("A"), D1, Num(1), Null),       \* EPS reported
      Item(Str("B"), D1, Null, Num(5)),       \* revenue reported, same day as the first
      Item(Str("A"), D2, Num(1), Num(5)),     \* both reported, a day later
      Item(Str("A"), D1, Null, Null),         \* the first one before it reported: estimates only
      Item(Str("A"), D2, Undefined, Undefined), \* the same event in a record without the two keys
      Item(Undefined, D1, Num(1), Null) }     \* a record without a symbol
SeqUpTo(S, n) == UNION { [1..k -> S] : k \in 0..n }
Batches == SeqUpTo(Events, MaxBatch)

(***************************************************************************)
(* State file                                                              *)
(***************************************************************************)
FileMissing == [k |-> "missing", json |-> Null]
\* text that JSON.parse rejects: an empty or partly written file, garbage
FileGarbage == [k |-> "garbage", json |-> Null]
FileJson(j) == [k |-> "json", json |-> j]

\* JSON.stringify of one state record: keys whose value is undefined are left out
StringifyRecord(o) == [k \in {x \in DOMAIN o : o[x] # Undefined} |-> o[k]]
\* JSON.stringify(state, null, 2)
Stringify(s) ==
    IF s.t = "array"
    THEN JsArray([n \in 1..Len(s.items) |-> StringifyRecord(s.items[n])])
    ELSE s

\* the (symbol, date) pair of a state record
KeyOf(e) == <<Get(e, "symbol"), Get(e, "date")>>
KeysOf(items) == { KeyOf(items[n]) : n \in 1..Len(items) }
Unique(items) == \A m, n \in 1..Len(items) : KeyOf(items[m]) = KeyOf(items[n]) => m = n

\* the records earlier runs can have written
StoredRecords == { StringifyRecord([symbol |-> e.symbol, date |-> e.date]) : e \in Events }
InitialFiles ==
    {FileMissing, FileGarbage, FileJson(JsObject)}
      \cup { FileJson(JsArray(s)) : s \in { q \in SeqUpTo(StoredRecords, MaxInitRecords) : Unique(q) } }

\* the records a reader finds in the file
RecordsIn(f) == IF f.k = "json" /\ f.json.t = "array" THEN KeysOf(f.json.items) ELSE {}

\* loadState(): JSON.parse(await fs.readFile(...)), [] on any error
LoadResult(f, readError) ==
    IF readError \/ f.k # "json" THEN EmptyArray ELSE f.json

(***************************************************************************)
(* Reconciliation                                                          *)
(***************************************************************************)
\* the comparator with its operands swapped
CompareReversed(a, b) == NewDate(b.date) - NewDate(a.date)

\* the sort comparator: new Date(a.date) - new Date(b.date)
Compare(a, b) == NewDate(a.date) - NewDate(b.date)

\* Array.prototype.sort is stable: x goes behind every element that does not
\* compare greater than it
RECURSIVE Insert(_, _)
Insert(x, s) ==
    IF s = <<>> THEN <<x>>
    ELSE IF Compare(Head(s), x) <= 0 THEN <<Head(s)>> \o Insert(x, Tail(s))
    ELSE <<x>> \o s

RECURSIVE SortEarnings(_)
SortEarnings(s) ==
    IF s = <<>> THEN <<>>
    ELSE Insert(s[Len(s)], SortEarnings(SubSeq(s, 1, Len(s) - 1)))

\* isReported: item.epsActual !== null || item.revenueActual !== null
IsReported(item) == item.epsActual # Null \/ item.revenueActual # Null

\* a membership test by object identity, which no parsed record passes
ExistsNever(items, item) == FALSE

\* a membership test against the records as they were loaded
ExistsWhenLoaded(items, item) ==
    \E n \in 1..Len(loaded.items) :
        Get(loaded.items[n], "symbol") = item.symbol /\ Get(loaded.items[n], "date") = item.date

\* state.some((e) => e.symbol === item.symbol && e.date === item.date)
Exists(items, item) ==
    \E n \in 1..Len(items) :
        Get(items[n], "symbol") = item.symbol /\ Get(items[n], "date") = item.date

\* a push that was forgotten
PushForgotten(s, item) == s

\* state.push({ symbol: item.symbol, date: item.date })
Push(s, item) == JsArray(Append(s.items, [symbol |-> item.symbol, date |-> item.date]))

(***************************************************************************)
(* Configuration                                                           *)
(***************************************************************************)
\* which of DISCORD_EARNINGS_WEBHOOK and FINNHUB_TOKEN process.env holds
Envs == [webhook : BOOLEAN, token : BOOLEAN]
\* neither of the two startup checks exits
Configured(e) == e.webhook /\ e.token

(***************************************************************************)
(* Presentation                                                            *)
(***************************************************************************)
\* x != null
NotNullish(x) == x # Null /\ x # Undefined

\* the subtraction with its operands swapped
SurpriseSwapped(a, e) ==
    IF NotNullish(a) /\ NotNullish(e) THEN Num(e.v - a.v) ELSE Null

\* surprise: epsActual - epsEstimate when both are != null, else null
Surprise(a, e) ==
    IF NotNullish(a) /\ NotNullish(e) THEN Num(a.v - e.v) ELSE Null

\* statusEmoji: blue circle, green circle or red circle
StatusEmoji(surprise) ==
    IF ~NotNullish(surprise) THEN "blue"
    ELSE IF surprise.v > 0 THEN "green"
    ELSE IF surprise.v < 0 THEN "red"
    ELSE "blue"

\* the values epsActual and epsEstimate can have
EpsValues == {Null, Undefined} \cup { Num(n) : n \in (0 - MaxEps)..MaxEps }

(***************************************************************************)
(* Initial state: the job has never run                                    *)
(***************************************************************************)
NoRun == [outcome |-> "none", batch |-> <<>>, sent |-> <<>>]
\* what is remembered of a run that ended at position p: that it was killed,
\* with the batch it had fetched and the items it had delivered, or that it
\* went through its batch and saved, with that batch
Summary(p, o, saved, b, delivered) ==
    IF p = "crashed" THEN [outcome |-> "crashed", batch |-> b, sent |-> delivered]
    ELSE IF p = "done" /\ o = "completed" /\ saved
         THEN [outcome |-> "completed", batch |-> b, sent |-> delivered]
    ELSE NoRun

Init ==
    /\ file \in InitialFiles
    /\ pc = "boot"
    /\ state = EmptyArray
    /\ batch = <<>>
    /\ earnings = <<>>
    /\ i = 1
    /\ sent = <<>>
    /\ attempts = 0
    /\ outcome = "running"
    /\ saves = 0
    /\ persisted = FALSE
    /\ fileAtStart = file
    /\ loaded = EmptyArray
    /\ fetched = FALSE
    /\ prev = NoRun
    /\ env \in Envs
    /\ waited = 0
    /\ surpriseInput = <<Null, Null>>
    /\ statusEmoji = "none"

(***************************************************************************)
(* Actions                                                                 *)
(***************************************************************************)
\* module startup: a missing DISCORD_EARNINGS_WEBHOOK or FINNHUB_TOKEN exits
ConfigError ==
    /\ pc = "boot"
    /\ ~Configured(env)
    /\ pc' = "aborted"
    /\ UNCHANGED <<file, state, batch, earnings, i, sent, attempts, outcome, saves,
                   persisted, fileAtStart, loaded, fetched, prev, env, waited, calc>>

\* loadState called although a startup check should have exited
LoadStateUnchecked ==
    /\ pc = "boot"
    /\ \E readError \in BOOLEAN :
         /\ state' = LoadResult(file, readError)
         /\ loaded' = LoadResult(file, readError)
    /\ fileAtStart' = file
    /\ pc' = "loaded"
    /\ UNCHANGED <<file, batch, earnings, i, sent, attempts, outcome, saves,
                   persisted, fetched, prev, env, waited, calc>>

\* const state = await loadState()
LoadState ==
    /\ pc = "boot"
    /\ Configured(env)
    /\ \E readError \in BOOLEAN :
         /\ state' = LoadResult(file, readError)
         /\ loaded' = LoadResult(file, readError)
    /\ fileAtStart' = file
    /\ pc' = "loaded"
    /\ UNCHANGED <<file, batch, earnings, i, sent, attempts, outcome, saves,
                   persisted, fetched, prev, env, waited, calc>>

\* axios.get resolves; earningsCalendar is sorted in place
FetchOk ==
    /\ pc = "loaded"
    /\ \E b \in Batches :
         /\ batch' = b
         /\ prev' = IF b = prev.batch THEN prev ELSE NoRun
         /\ earnings' = SortEarnings(b)
    /\ fetched' = TRUE
    /\ i' = 1
    /\ pc' = "loop"
    /\ UNCHANGED <<file, state, sent, attempts, outcome, saves, persisted,
                   fileAtStart, loaded, env, waited, calc>>

\* a fetch made outside the try block: its failure ends the run unsaved
FetchFailUnsaved ==
    /\ pc = "loaded"
    /\ outcome' = "fetchFailed"
    /\ pc' = "done"
    /\ UNCHANGED <<file, state, batch, earnings, i, sent, attempts, saves,
                   persisted, fileAtStart, loaded, fetched, prev, env, waited, calc>>

\* axios.get rejects (timeout, non-2xx) or the payload has no array to sort
FetchFail ==
    /\ pc = "loaded"
    /\ outcome' = "fetchFailed"
    /\ pc' = "finally"
    /\ UNCHANGED <<file, state, batch, earnings, i, sent, attempts, saves,
                   persisted, fileAtStart, loaded, fetched, prev, env, waited, calc>>

\* the for-of loop is exhausted
LoopEnd ==
    /\ pc = "loop"
    /\ i > Len(earnings)
    /\ outcome' = "completed"
    /\ pc' = "finally"
    /\ UNCHANGED <<file, state, batch, earnings, i, sent, attempts, saves,
                   persisted, fileAtStart, loaded, fetched, prev, env, waited, calc>>

\* if (!isReported) continue
SkipUnreported ==
    /\ pc = "loop"
    /\ i <= Len(earnings)
    /\ ~IsReported(earnings[i])
    /\ i' = i + 1
    /\ UNCHANGED <<file, pc, state, batch, earnings, sent, attempts, outcome, saves,
                   persisted, fileAtStart, loaded, fetched, prev, env, waited, calc>>

\* state.some is not a function: the loaded JSON value is no array
ExistsThrows ==
    /\ pc = "loop"
    /\ i <= Len(earnings)
    /\ IsReported(earnings[i])
    /\ state.t # "array"
    /\ outcome' = "threw"
    /\ pc' = "finally"
    /\ UNCHANGED <<file, state, batch, earnings, i, sent, attempts, saves,
                   persisted, fileAtStart, loaded, fetched, prev, env, waited, calc>>

\* if (exists) continue
SkipExisting ==
    /\ pc = "loop"
    /\ i <= Len(earnings)
    /\ IsReported(earnings[i])
    /\ state.t = "array"
    /\ Exists(state.items, earnings[i])
    /\ i' = i + 1
    /\ UNCHANGED <<file, pc, state, batch, earnings, sent, attempts, outcome, saves,
                   persisted, fileAtStart, loaded, fetched, prev, env, waited, calc>>

\* the embed is built and webhook.send is called
BeginSend ==
    /\ pc = "loop"
    /\ i <= Len(earnings)
    /\ IsReported(earnings[i])
    /\ state.t = "array"
    /\ ~Exists(state.items, earnings[i])
    /\ attempts' = attempts + 1
    /\ pc' = "sending"
    /\ UNCHANGED <<file, state, batch, earnings, i, sent, outcome, saves,
                   persisted, fileAtStart, loaded, fetched, prev, env, waited, calc>>

\* a loop without the sleep: the next iteration follows the push at once
SendOkNoSleep ==
    /\ pc = "sending"
    /\ sent' = Append(sent, earnings[i])
    /\ state' = Push(state, earnings[i])
    /\ i' = i + 1
    /\ pc' = "loop"
    /\ UNCHANGED <<file, batch, earnings, attempts, outcome, saves,
                   persisted, fileAtStart, loaded, fetched, prev, env, waited, calc>>

\* webhook.send resolves; state.push; then sleep
SendOk ==
    /\ pc = "sending"
    /\ sent' = Append(sent, earnings[i])
    /\ state' = Push(state, earnings[i])
    /\ pc' = "sleeping"
    /\ UNCHANGED <<file, batch, earnings, i, attempts, outcome, saves,
                   persisted, fileAtStart, loaded, fetched, prev, env, waited, calc>>

\* a catch inside the loop: the failure is logged and the loop goes on
SendFailContinue ==
    /\ pc = "sending"
    /\ outcome' = "sendFailed"
    /\ i' = i + 1
    /\ pc' = "loop"
    /\ UNCHANGED <<file, state, batch, earnings, sent, attempts, saves,
                   persisted, fileAtStart, loaded, fetched, prev, env, waited, calc>>

\* a record pushed before the send is known to have succeeded
SendFailRecorded ==
    /\ pc = "sending"
    /\ outcome' = "sendFailed"
    /\ state' = Push(state, earnings[i])
    /\ pc' = "finally"
    /\ UNCHANGED <<file, batch, earnings, i, sent, attempts, saves,
                   persisted, fileAtStart, loaded, fetched, prev, env, waited, calc>>

\* webhook.send rejects: the catch block logs, the loop is left
SendFail ==
    /\ pc = "sending"
    /\ outcome' = "sendFailed"
    /\ pc' = "finally"
    /\ UNCHANGED <<file, state, batch, earnings, i, sent, attempts, saves,
                   persisted, fileAtStart, loaded, fetched, prev, env, waited, calc>>

\* sleep(SLEEP_BETWEEN_SENDS) resolves; next iteration
SleepDone ==
    /\ pc = "sleeping"
    /\ waited' = waited + SLEEP_BETWEEN_SENDS
    /\ i' = i + 1
    /\ pc' = "loop"
    /\ UNCHANGED <<file, state, batch, earnings, sent, attempts, outcome, saves,
                   persisted, fileAtStart, loaded, fetched, prev, env, calc>>

\* finally: saveState(state); fs.writeFile opens STATE_FILE with flag "w",
\* which truncates it, or fails to open it
SaveState ==
    /\ pc = "finally"
    /\ saves' = saves + 1
    /\ \E opened \in BOOLEAN :
         IF opened
         THEN file' = FileGarbage /\ pc' = "writing"
         ELSE file' = file /\ pc' = "done"
    /\ UNCHANGED <<state, batch, earnings, i, sent, attempts, outcome,
                   persisted, fileAtStart, loaded, fetched, prev, env, waited, calc>>

\* fs.writeFile resolves: the file holds JSON.stringify(state)
WriteDone ==
    /\ pc = "writing"
    /\ file' = FileJson(Stringify(state))
    /\ persisted' = TRUE
    /\ pc' = "done"
    /\ UNCHANGED <<state, batch, earnings, i, sent, attempts, outcome, saves,
                   fileAtStart, loaded, fetched, prev, env, waited, calc>>

\* fs.writeFile rejects after the file was truncated; main().catch exits
WriteFail ==
    /\ pc = "writing"
    /\ pc' = "done"
    /\ UNCHANGED <<file, state, batch, earnings, i, sent, attempts, outcome, saves,
                   persisted, fileAtStart, loaded, fetched, prev, env, waited, calc>>

\* the process is killed at a suspension point; a send in flight may or may
\* not have been delivered
Crash ==
    /\ pc \in {"loaded", "sending", "sleeping", "writing"}
    /\ pc' = "crashed"
    /\ \E delivered \in BOOLEAN :
         sent' = IF pc = "sending" /\ delivered THEN Append(sent, earnings[i]) ELSE sent
    /\ UNCHANGED <<file, state, batch, earnings, i, attempts, outcome, saves,
                   persisted, fileAtStart, loaded, fetched, prev, env, waited, calc>>

\* the scheduler starts the job again
Launch ==
    /\ pc \in {"done", "crashed", "aborted"}
    /\ prev' = Summary(pc, outcome, persisted, batch, sent)
    /\ pc' = "boot"
    /\ state' = EmptyArray
    /\ earnings' = <<>>
    /\ i' = 1
    /\ sent' = <<>>
    /\ attempts' = 0
    /\ outcome' = "running"
    /\ saves' = 0
    /\ persisted' = FALSE
    /\ fileAtStart' = file
    /\ loaded' = EmptyArray
    /\ fetched' = FALSE
    /\ batch' = <<>>
    /\ env' \in Envs
    /\ waited' = 0
    /\ UNCHANGED <<file, calc>>

Next ==
    \/ ConfigError
    \/ LoadState
    \/ FetchOk
    \/ FetchFail
    \/ LoopEnd
    \/ SkipUnreported
    \/ ExistsThrows
    \/ SkipExisting
    \/ BeginSend
    \/ SendOk
    \/ SendFail
    \/ SleepDone
    \/ SaveState
    \/ WriteDone
    \/ WriteFail
    \/ Launch

\* the job, each run of which runs to its exit
Spec == Init /\ [][Next]_vars

\* the job, when a run can also be killed
NextCrash == Next \/ Crash
SpecCrash == Init /\ [][NextCrash]_vars

(***************************************************************************)
(* The surprise computation on its own: every (epsActual, epsEstimate)     *)
(* pair is given to it, one after the other                                *)
(***************************************************************************)
InitSurprise ==
    /\ file = FileMissing
    /\ pc = "boot"
    /\ state = EmptyArray
    /\ batch = <<>>
    /\ earnings = <<>>
    /\ i = 1
    /\ sent = <<>>
    /\ attempts = 0
    /\ outcome = "running"
    /\ saves = 0
    /\ persisted = FALSE
    /\ fileAtStart = file
    /\ loaded = EmptyArray
    /\ fetched = FALSE
    /\ prev = NoRun
    /\ env = [webhook |-> TRUE, token |-> TRUE]
    /\ waited = 0
    /\ surpriseInput \in EpsValues \X EpsValues
    /\ statusEmoji = "none"

run == <<file, pc, state, batch, earnings, i, sent, attempts, outcome, saves,
         persisted, fileAtStart, loaded, fetched, prev, env, waited>>

\* const surprise = ...; const statusEmoji = ...
ComputeStatus ==
    /\ statusEmoji = "none"
    /\ statusEmoji' = StatusEmoji(Surprise(surpriseInput[1], surpriseInput[2]))
    /\ UNCHANGED <<run, surpriseInput>>

\* the next item's figures
NextFigures ==
    /\ statusEmoji # "none"
    /\ surpriseInput' \in EpsValues \X EpsValues
    /\ statusEmoji' = "none"
    /\ UNCHANGED run

NextSurprise == ComputeStatus \/ NextFigures
SpecSurprise == InitSurprise /\ [][NextSurprise]_vars

(***************************************************************************)
(* Repeated runs while one reportable event stays in the upstream window,  *)
(* the upstream eventually answering, the channel eventually accepting     *)
(* the event and the file system eventually completing the write           *)
(***************************************************************************)
Tracked == Item(Str("A"), D1, Num(1), Null)
InWindow(b) == \E n \in 1..Len(b) : b[n] = Tracked

InitLive == Init /\ Configured(env)

\* the calendar answers and still lists the tracked event
FetchWindow == FetchOk /\ InWindow(batch')

\* the next scheduled run, configured as the one before
Relaunch == Launch /\ env' = env

\* webhook.send is in flight for the event e
Sending(e) == pc = "sending" /\ earnings[i] = e
StateHasTracked == state.t = "array" /\ KeyOf(Tracked) \in KeysOf(state.items)

\* fs.writeFile opens the state file
Opened == SaveState /\ pc' = "writing"

NextLive ==
    \/ LoadState
    \/ FetchWindow
    \/ FetchFail
    \/ LoopEnd
    \/ SkipUnreported
    \/ ExistsThrows
    \/ SkipExisting
    \/ BeginSend
    \/ SendOk
    \/ SendFail
    \/ SleepDone
    \/ SaveState
    \/ WriteDone
    \/ WriteFail
    \/ Relaunch

Fairness ==
    /\ WF_vars(NextLive)
    /\ SF_vars(FetchWindow)
    /\ \A e \in Events : SF_vars(Sending(e) /\ SendOk)
    /\ SF_vars(Opened)
    /\ SF_vars(WriteDone)
    /\ SF_vars(StateHasTracked /\ Opened)
    /\ SF_vars(StateHasTracked /\ WriteDone)

SpecLive == InitLive /\ [][NextLive]_vars /\ Fairness

(***************************************************************************)
(* Properties                                                              *)
(***************************************************************************)
\* loadState returned what the file held
LoadedSaved == fileAtStart.k = "json" /\ loaded = fileAtStart.json
\* this run works on the batch the previous run worked on
SameBatch == fetched /\ batch = prev.batch
\* the record a delivered item leaves in the file
RecordOf(item) == StringifyRecord([symbol |-> item.symbol, date |-> item.date])
RecordsOf(items) == [n \in 1..Len(items) |-> RecordOf(items[n])]

\* C1: a run that loads the state saved by a run which went through the same
\* batch with every send succeeding calls webhook.send not once.
Idempotent ==
    (prev.outcome = "completed" /\ SameBatch /\ LoadedSaved) => attempts = 0

\* the second of two such runs has ended, and the first had sent something
IdempotentWitness ==
    /\ pc = "done" /\ outcome = "completed"
    /\ prev.outcome = "completed" /\ SameBatch /\ LoadedSaved
    /\ Len(prev.sent) > 0
    /\ attempts = 0

\* C2: when a send fails after k sends succeeded, the file written by the run
\* holds the records loadState returned followed by the records of the k
\* delivered items, and none for the item whose send failed.
PartialFailureDurability ==
    (pc = "done" /\ outcome = "sendFailed" /\ persisted) =>
        /\ Len(sent) = attempts - 1
        /\ file = FileJson(JsArray(loaded.items \o RecordsOf(sent)))
        /\ KeyOf(earnings[i]) \notin RecordsIn(file)

\* one send succeeded, the next failed, and the state was saved
PartialFailureWitness ==
    /\ pc = "done" /\ outcome = "sendFailed" /\ persisted
    /\ Len(sent) = 1 /\ attempts = 2
    /\ Len(loaded.items) > 0

\* the events delivered by the previous run and by this one
DeliveredTwice == KeysOf(prev.sent) \cap KeysOf(sent)

\* C3: when a run is killed and the next run fetches the same batch, at most
\* one event is delivered in both runs.
CrashTolerance ==
    (prev.outcome = "crashed" /\ SameBatch) => Cardinality(DeliveredTwice) <= 1

\* C4: saveState is invoked once in every run that gets past startup: not
\* before the finally block, once when the run has ended, never twice.
SaveOnce ==
    /\ saves <= 1
    /\ pc = "done" => saves = 1
    /\ pc \in {"boot", "aborted", "loaded", "loop", "sending", "sleeping", "finally"} => saves = 0

\* a run left its loop by an exception of state.some and has ended
SaveOnceWitness == pc = "done" /\ outcome = "threw" /\ saves = 1

\* C5: a failed send takes the run to the finally block, whose next step is
\* saveState, and no send is started or delivered in the rest of the run.
AbortOnFailure ==
    [][ /\ (pc = "sending" /\ outcome' = "sendFailed") => pc' = "finally"
        /\ (outcome = "sendFailed" /\ pc = "finally") => saves' = saves + 1
        /\ (outcome = "sendFailed" /\ pc' # "boot") => (attempts' = attempts /\ sent' = sent)
      ]_vars

\* a send failed while a later item of the queue was still to be sent
AbortOnFailureWitness ==
    /\ pc = "done" /\ outcome = "sendFailed"
    /\ \E n \in (i + 1)..Len(earnings) :
          IsReported(earnings[n]) /\ ~Exists(state.items, earnings[n])
          /\ KeyOf(earnings[n]) # KeyOf(earnings[i])

\* C6: neither `state` nor the state file ever holds two records with the
\* same (symbol, date) pair.
UniqueRecords ==
    /\ state.t = "array" => Unique(state.items)
    /\ (file.k = "json" /\ file.json.t = "array") => Unique(file.json.items)

\* a batch with the same reported event twice was gone through and saved
UniqueRecordsWitness ==
    /\ pc = "done" /\ outcome = "completed" /\ persisted
    /\ Len(batch) = 2 /\ KeyOf(batch[1]) = KeyOf(batch[2])
    /\ IsReported(batch[1]) /\ IsReported(batch[2])
    /\ Len(sent) = 1 /\ Len(loaded.items) > 0

\* the item has a reported EPS or a reported revenue: a value, not null, not absent
HasActual(item) ==
    \/ item.epsActual \notin {Null, Undefined}
    \/ item.revenueActual \notin {Null, Undefined}

\* C7: every item sent has a reported EPS or a reported revenue.
OnlyReportableSent == \A n \in 1..Len(sent) : HasActual(sent[n])

\* where e first stands in s
FirstIndex(s, e) == CHOOSE n \in 1..Len(s) : s[n] = e /\ \A m \in 1..(n - 1) : s[m] # e

MonotonicPersisted ==
    pc = "done" => RecordsIn(fileAtStart) \subseteq RecordsIn(file)

\* C10: a run whose fetch failed sends nothing and, when it has saved, leaves
\* in the file the records that were in it before.
FetchFailureKeepsState ==
    (pc = "done" /\ outcome = "fetchFailed") =>
        /\ attempts = 0
        /\ persisted => RecordsIn(file) = RecordsIn(fileAtStart)

\* C11: a record without a symbol is skipped: it is never sent (and so never
\* recorded).
MissingSymbolSkipped == \A n \in 1..Len(sent) : sent[n].symbol # Undefined

\* the file held a JSON array when the run called loadState
FileHeldArray == fileAtStart.k = "json" /\ fileAtStart.json.t = "array"

\* C12: when the file is missing, unreadable or holds anything but an array of
\* records, loadState returns [] and the run goes through its batch.
LoadNeverFails ==
    (pc \notin {"boot", "aborted"} /\ ~FileHeldArray) =>
        (loaded = EmptyArray /\ outcome # "threw")

\* C13: the file is at every instant what it was when the run started or the
\* complete JSON text of `state`.
AtomicSave == file \in {fileAtStart, FileJson(Stringify(state))}

\* C14: no two of the sends that succeeded in a run are for the same
\* (symbol, date) pair.
OneSendPerKey ==
    \A m, n \in 1..Len(sent) : KeyOf(sent[m]) = KeyOf(sent[n]) => m = n

\* the same reported event stood twice in the batch, no record of it was
\* loaded, and the run sent it once
OneSendPerKeyWitness ==
    /\ pc = "done" /\ outcome = "completed"
    /\ Len(batch) = 2 /\ KeyOf(batch[1]) = KeyOf(batch[2])
    /\ IsReported(batch[1]) /\ IsReported(batch[2])
    /\ KeyOf(batch[1]) \notin KeysOf(loaded.items)
    /\ Len(sent) = 1

\* sends that were started and have neither resolved nor rejected
InFlight == attempts - Len(sent) - (IF outcome = "sendFailed" THEN 1 ELSE 0)

\* C15: at most one send is in flight, and a send starts only from the loop,
\* when a full sleep has elapsed after each send that succeeded before it.
RateLimited ==
    /\ [](InFlight \in {0, 1} /\ (InFlight = 1 <=> pc = "sending"))
    /\ [][attempts' = attempts + 1 =>
            (pc = "loop" /\ waited = Len(sent) * SLEEP_BETWEEN_SENDS)]_vars

\* the second send of a run is in flight, one sleep after the first
RateLimitedWitness ==
    pc = "sending" /\ attempts = 2 /\ Len(sent) = 1 /\ waited = SLEEP_BETWEEN_SENDS

\* C16: a run whose webhook address or token is missing never gets past
\* startup: it loads nothing, fetches nothing, sends nothing, saves nothing.
ConfigAbort ==
    ~Configured(env) =>
        /\ pc \in {"boot", "aborted"}
        /\ loaded = EmptyArray /\ ~fetched /\ attempts = 0 /\ sent = <<>>
        /\ saves = 0 /\ file = fileAtStart

\* a run without a token has exited at startup, after a run that wrote the file
ConfigAbortWitness ==
    pc = "aborted" /\ env.webhook /\ ~env.token /\ RecordsIn(file) # {}

\* C17: the glyph is the neutral one when epsActual or epsEstimate is absent
\* or when they are equal, the positive one when epsActual is greater and the
\* negative one when it is less.
SurpriseClassification ==
    statusEmoji # "none" =>
        LET a == surpriseInput[1]
            e == surpriseInput[2]
            both == a.t = "number" /\ e.t = "number"
        IN  /\ ~both => statusEmoji = "blue"
            /\ (both /\ a.v = e.v) => statusEmoji = "blue"
            /\ (both /\ a.v > e.v) => statusEmoji = "green"
            /\ (both /\ a.v < e.v) => statusEmoji = "red"

\* a miss was classified
SurpriseClassificationWitness ==
    /\ statusEmoji = "red"
    /\ surpriseInput[1].t = "number" /\ surpriseInput[2].t = "number"
    /\ surpriseInput[1].v < surpriseInput[2].v

\* a run ended on a failed send or on an exception without sending the tracked
\* event, which the state file does not record
Lost ==
    /\ pc = "done" /\ outcome \in {"sendFailed", "threw"}
    /\ InWindow(batch)
    /\ KeyOf(Tracked) \notin KeysOf(sent)
    /\ KeyOf(Tracked) \notin RecordsIn(file)

\* a run has sent the tracked event and the state file records it
SentAndRecorded ==
    /\ pc = "done"
    /\ KeyOf(Tracked) \in KeysOf(sent)
    /\ KeyOf(Tracked) \in RecordsIn(file)

\* C18: a reportable event that a failed or aborted run left unsent and
\* unrecorded is eventually sent and recorded, when runs are repeated, the
\* event stays in the window and the channel eventually accepts it.
NoLostNotification == Lost ~> SentAndRecorded

TypeOK ==
    /\ pc \in {"boot", "aborted", "loaded", "loop", "sending", "sleeping", "finally",
               "writing", "done", "crashed"}
    /\ batch \in Batches
    /\ i \in 1..(MaxBatch + 1)
    /\ saves \in 0..1
    /\ env \in Envs
    /\ waited \in { n * SLEEP_BETWEEN_SENDS : n \in 0..MaxBatch }
    /\ surpriseInput \in EpsValues \X EpsValues
    /\ statusEmoji \in {"none", "blue", "green", "red"}
====
